---- MODULE Spec2Model ----
(***************************************************************************)
(* A model of beast/observationmodel/observations.py: the Observations     *)
(* catalog interface and gen_SimObs_from_sedgrid, the generator of         *)
(* simulated observations from a model SED grid and a toothpick noise      *)
(* model.                                                                  *)
(*                                                                         *)
(* Representation                                                          *)
(*  - A string is a sequence of atoms; an atom is a one-character string   *)
(*    or an opaque word ("FLUX", "weight").  "_" is the separator that     *)
(*    str.split(sep="_") cuts at.                                          *)
(*  - A float is an integer, or (after a division) a record                *)
(*    [num, den] with den >= 0: den > 0 is the rational num/den, and       *)
(*    den = 0 is IEEE's nan (num = 0), +inf (num = 1) or -inf (num = -1).  *)
(*  - numpy's process-wide generator is a counter modulo RngMod; seeding   *)
(*    with an integer sets it, seeding with None draws it from the OS.     *)
(*  - Model indices are 1-based here (0-based in the source).              *)
(***************************************************************************)
EXTENDS Integers, Sequences, FiniteSets, TLC

VARIABLES
    sedgrid,       \* the SEDgrid argument: filters, seds, keys, cols
    noisemodel,    \* the noise model argument: bias, error, completeness
    rng,           \* state of numpy's process-wide random generator
    pc,            \* position in gen_SimObs_from_sedgrid
    args,          \* arguments of the call in progress
    rng_entry,     \* generator state when the call in progress was entered
    model_compl,   \* local: per-model completeness
    gridweights,   \* local: normalised selection weights
    seeded,        \* np.random.seed has run in this call
    sim_indx,      \* local: sampled model indices
    vega_flux,     \* local: reference flux per filter
    k,             \* local: index of the next filter of the loop at line 310
    ot,            \* local: the output table
    err,           \* the exception that ended the call, or NoError
    remembered,    \* an earlier returned call, kept for comparison
    obs,           \* the Observations object, or NoObject
    obs_out        \* outcome of the last Observations method call

simvars == <<sedgrid, noisemodel, rng, pc, args, rng_entry, model_compl,
             gridweights, seeded, sim_indx, vega_flux, k, ot, err, remembered>>
obsvars == <<obs, obs_out>>
vars == <<simvars, obsvars>>

(***************************************************************************)
(* Bounds                                                                   *)
(***************************************************************************)
MaxNsim == 2    \* nsim ranges over 1..MaxNsim
MaxSeed == 1    \* integer seeds range over 0..MaxSeed
RngMod == 3     \* number of states of the generator
NObs == 2       \* number of records of a catalog

(***************************************************************************)
(* Strings                                                                  *)
(***************************************************************************)
\* Python's None, for an optional argument given as <<value>>
None == <<>>

Upper(c) ==
    CASE c = "a" -> "A"
      [] c = "b" -> "B"
      [] c = "m" -> "M"
      [] c = "x" -> "X"
      [] c = "y" -> "Y"
      [] OTHER -> c

Lower(c) ==
    CASE c = "A" -> "a"
      [] c = "B" -> "b"
      [] c = "M" -> "m"
      [] c = "X" -> "x"
      [] c = "Y" -> "y"
      [] OTHER -> c

StrUpper(s) == [i \in 1..Len(s) |-> Upper(s[i])]

StrLower(s) == [i \in 1..Len(s) |-> Lower(s[i])]

\* s.split(sep="_")[0]: the token before the first separator
SplitFirstAs(s) ==
    LET seps == {i \in 1..Len(s) : s[i] = "_"}
        first == IF seps = {} THEN Len(s) + 1
                 ELSE CHOOSE i \in seps : \A j \in seps : i <= j
    IN  SubSeq(s, 1, first - 1)

\* s.split(sep="_")[-1]
SplitLast(s) ==
    LET seps == {i \in 1..Len(s) : s[i] = "_"}
        last == IF seps = {} THEN 0
                ELSE CHOOSE i \in seps : \A j \in seps : j <= i
    IN  SubSeq(s, last + 1, Len(s))

\* "\n".join(list)
RECURSIVE JoinLines(_)
JoinLines(list) ==
    IF list = <<>> THEN <<>>
    ELSE IF Len(list) = 1 THEN list[1]
    ELSE list[1] \o <<"\n">> \o JoinLines(Tail(list))

\* x in list
InList(x, list) == \E i \in 1..Len(list) : list[i] = x

\* list.index(x), 1-based, for x in list
ListIndex(x, list) ==
    CHOOSE i \in 1..Len(list) :
        /\ list[i] = x
        /\ \A j \in 1..Len(list) : list[j] = x => i <= j

\* sub occurs in s as a contiguous run of atoms
Contains(s, sub) ==
    \E i \in 0..(Len(s) - Len(sub)) : SubSeq(s, i + 1, i + Len(sub)) = sub

(***************************************************************************)
(* Floats                                                                   *)
(***************************************************************************)
Sign(n) == IF n > 0 THEN 1 ELSE IF n < 0 THEN -1 ELSE 0

Abs(n) == IF n < 0 THEN -n ELSE n

\* a / b on floats
FDiv(a, b) ==
    IF b = 0 THEN [num |-> Sign(a), den |-> 0]
    ELSE IF b < 0 THEN [num |-> -a, den |-> -b]
    ELSE [num |-> a, den |-> b]

IsNaN(r) == r.den = 0 /\ r.num = 0

\* r > 0.0
GtZero(r) == r.num > 0

\* r < 0.0
LeZeroStrictAs(r) == r.num < 0

\* r <= 0.0
LeZero(r) == r.num < 0 \/ (r.num = 0 /\ r.den > 0)

\* r < 0 as numpy's p < 0
LtZero(r) == r.num < 0

RECURSIVE SumTo(_, _)
SumTo(v, n) == IF n = 0 THEN 0 ELSE v[n] + SumTo(v, n - 1)

\* np.sum(v)
Sum(v) == SumTo(v, Len(v))

\* np.max(row)
MaxOf(row) == CHOOSE x \in {row[i] : i \in 1..Len(row)} :
                  \A i \in 1..Len(row) : row[i] <= x

(***************************************************************************)
(* numpy's process-wide random generator                                    *)
(***************************************************************************)
RngStates == 0..(RngMod - 1)

\* the generator ignores the seed and keeps drawing from the OS
SeedIgnoredAs(ranseed) == RngStates

\* np.random.seed(ranseed): the states the generator may be left in
SeedStates(ranseed) ==
    IF ranseed = None THEN RngStates ELSE {ranseed[1] % RngMod}

\* the generator's state after n draws
Advance(s, n) == (s + n) % RngMod

\* random_sample(): the j-th uniform deviate drawn from state s, as a
\* numerator over RngMod, so that it lies in [0, 1)
Uniform(s, j) == Advance(s, j - 1)

\* standard_normal(): the j-th standard deviate drawn from state s
Gauss(s, j) == (Advance(s, j - 1) % 3) - 1

\* p.cumsum()[i], as a numerator over the common denominator of p
CumNum(p, i) == SumTo([j \in 1..Len(p) |-> p[j].num], i)

\* cdf.searchsorted(u, side='left'): entries strictly below u
SearchSortedLeftAs(p, u) ==
    Cardinality({i \in 1..Len(p) : CumNum(p, i) * RngMod < u * p[1].den})

\* cdf.searchsorted(u, side='right'): the number of entries of the cdf <= u
SearchSorted(p, u) ==
    Cardinality({i \in 1..Len(p) : CumNum(p, i) * RngMod <= u * p[1].den})

NoError == [type |-> "none", msg |-> <<>>]

\* the validation np.random.choice applies to p, in its order
ChoiceError(p) ==
    LET n == Len(p)
        nanSum == \/ \E i \in 1..n : IsNaN(p[i])
                  \/ /\ \E i \in 1..n : p[i].den = 0 /\ p[i].num > 0
                     /\ \E i \in 1..n : p[i].den = 0 /\ p[i].num < 0
    IN  IF nanSum
          THEN [type |-> "ValueError", msg |-> <<"probabilities contain NaN">>]
        ELSE IF \E i \in 1..n : LtZero(p[i])
          THEN [type |-> "ValueError",
                msg |-> <<"probabilities are not non-negative">>]
        ELSE IF \E i \in 1..n : p[i].den = 0
          THEN [type |-> "ValueError",
                msg |-> <<"probabilities do not sum to 1">>]
        ELSE NoError

\* np.random.choice(range(n_models), size=nsim, p=p) from generator state s
Choice(p, nsim, s) ==
    [j \in 1..nsim |-> SearchSorted(p, Uniform(s, j)) + 1]

\* np.random.normal(loc=loc, scale=scale) from generator state s
Normal(loc, scale, s) ==
    [j \in 1..Len(loc) |-> loc[j] + scale[j] * Gauss(s, j)]

(***************************************************************************)
(* astropy Table: an ordered list of named columns                          *)
(***************************************************************************)
HasCol(t, name) == \E i \in 1..Len(t) : t[i].name = name

\* t[name]
GetCol(t, name) == t[CHOOSE i \in 1..Len(t) : t[i].name = name].vals

\* t[name] = Column(vals): a new name is appended, an existing one replaced
SetCol(t, name, vals) ==
    IF HasCol(t, name)
      THEN [i \in 1..Len(t) |->
               IF t[i].name = name THEN [name |-> name, vals |-> vals]
               ELSE t[i]]
      ELSE Append(t, [name |-> name, vals |-> vals])

ColNames(t) == [i \in 1..Len(t) |-> t[i].name]

(***************************************************************************)
(* Inputs of gen_SimObs_from_sedgrid                                        *)
(***************************************************************************)
F_Xa == <<"X", "_", "a">>
F_YB == <<"Y", "_", "B">>
F_YA == <<"Y", "_", "A">>
F_b == <<"b">>
F_XYa == <<"X", "_", "Y", "_", "a">>

\* sedgrid.filters: distinct bands; two instruments sharing a band; an
\* identifier without separator and one with two
FilterLists == {<<F_Xa, F_YB>>, <<F_Xa, F_YA>>, <<F_b, F_XYa>>}

WEIGHT == <<"weight">>
PRIOR_WEIGHT == <<"prior", "_", "weight">>
AV == <<"Av">>

\* the column sedgrid["weight"], one entry per model
WeightColumns ==
    {<<1, 1>>, <<0, 1>>, <<0, 0>>, <<-1, -1>>, <<1, -1>>, <<1, 0, 1>>}

CompletenessPatterns == {"mixed", "filter1zero", "model1zero"}

\* completeness[i][f] in units of one half
Completeness(pattern, n, nf) ==
    [i \in 1..n |-> [f \in 1..nf |->
        CASE pattern = "mixed" -> (i + f) % 3
          [] pattern = "filter1zero" -> IF f = 1 THEN 0 ELSE 1
          [] pattern = "model1zero" -> IF i = 1 THEN 0 ELSE f]]

\* a grid of Len(weight) models over the given filters
Grid(filters, weight) ==
    LET n == Len(weight)
    IN  [filters |-> filters,
         seds |-> [i \in 1..n |-> [f \in 1..Len(filters) |-> 2 * i + f - 3]],
         keys |-> <<AV, WEIGHT, PRIOR_WEIGHT>>,
         cols |-> (AV :> [i \in 1..n |-> 10 * i]) @@
                  (WEIGHT :> weight) @@
                  (PRIOR_WEIGHT :> [i \in 1..n |-> i])]

\* a noise model for n models and nf filters; the error is stored signed
NoiseModel(pattern, n, nf) ==
    [bias |-> [i \in 1..n |-> [f \in 1..nf |-> i - 2 * f + 1]],
     error |-> [i \in 1..n |-> [f \in 1..nf |-> i - 2]],
     completeness |-> Completeness(pattern, n, nf)]

ComplFilters == {<<"A">>, <<"b">>, <<"M", "a", "x">>, <<"X">>}

VegaFiles == {<<"vega">>, <<"missing">>}

CallArgs ==
    [nsim : 1..MaxNsim,
     compl_filter : ComplFilters,
     ranseed : {None, <<0>>},
     vega_fname : VegaFiles,
     weight_to_use : {WEIGHT, PRIOR_WEIGHT}]

NoArgs == [nsim |-> 0, compl_filter |-> <<>>, ranseed |-> None,
           vega_fname |-> <<>>, weight_to_use |-> <<>>]

NoCall == [args |-> NoArgs, rng_entry |-> 0, sim_indx |-> <<>>, ot |-> <<>>]

(***************************************************************************)
(* gen_SimObs_from_sedgrid                                                  *)
(***************************************************************************)
n_models == Len(sedgrid.seds)

n_filters == Len(sedgrid.filters)

\* compl_filter.lower() == 'max'
IsMax(compl_filter) == StrLower(compl_filter) = <<"m", "a", "x">>

\* the first token of each identifier instead of the last
ShortFiltersFirstAs(filters) ==
    [f \in 1..Len(filters) |-> StrUpper(SplitFirstAs(filters[f]))]

\* [filter.split(sep="_")[-1].upper() for filter in sedgrid.filters]
ShortFilters(filters) ==
    [f \in 1..Len(filters) |-> StrUpper(SplitLast(filters[f]))]

\* the NotImplementedError of line 274
FilterNotPresent(compl_filter, short_filters) ==
    [type |-> "NotImplementedError",
     msg |-> <<"Requested completeness filter not present:">>
             \o StrUpper(compl_filter)
             \o <<"\nPossible filters:">>
             \o JoinLines(short_filters)]

\* np.max(completeness, axis=1)
MaxCompleteness(completeness) ==
    [i \in 1..Len(completeness) |-> MaxOf(completeness[i])]

\* completeness[:, filter_k]
CompletenessColumn(completeness, filter_k) ==
    [i \in 1..Len(completeness) |-> completeness[i][filter_k]]

\* gridweights = weight * model_compl; gridweights / np.sum(gridweights)
Normalize(weight, compl) ==
    LET raw == [i \in 1..Len(weight) |-> weight[i] * compl[i]]
    IN  [i \in 1..Len(weight) |-> FDiv(raw[i], Sum(raw))]

\* Vega(source=vega_fname).getFlux(filters): the lookup fails on a missing
\* file, and else gives one positive reference flux per filter identifier
VegaFails(vega_fname) == vega_fname = <<"missing">>

VegaGetFlux(filters) == [f \in 1..Len(filters) |-> Len(filters[f])]

VegaError == [type |-> "OSError", msg |-> <<"vega file not found">>]

\* -2.5 * np.log10(r), kept symbolic
Neg25Log10(r) == [fn |-> "-2.5*log10", arg |-> r]

\* -99.999
MagSentinel == [fn |-> "const", arg |-> FDiv(-99999, 1000)]

\* lines 326-330 and 341-345: the magnitude column of a rate column
Magnitudes(rate) ==
    [j \in 1..Len(rate) |->
        IF GtZero(rate[j]) THEN Neg25Log10(rate[j])
        ELSE IF LeZero(rate[j]) THEN MagSentinel
        ELSE rate[j]]

ColName(bname, suffix) == bname \o suffix

FLUX == <<"_", "FLUX">>
RATE == <<"_", "RATE">>
VEGA == <<"_", "VEGA">>
INPUT_FLUX == <<"_", "INPUT", "_", "FLUX">>
INPUT_RATE == <<"_", "INPUT", "_", "RATE">>
INPUT_VEGA == <<"_", "INPUT", "_", "VEGA">>

\* filter.split(sep="_")[-1].upper()
BName(filter) == StrUpper(SplitLast(filter))

\* flux[sim_indx, f]
Picked(matrix, indx, f) == [j \in 1..Len(indx) |-> matrix[indx[j]][f]]

\* one pass of the loop of lines 310-345, for filter f, on table t
FilterColumns(t, f, simflux) ==
    LET bname == BName(sedgrid.filters[f])
        t1 == SetCol(t, ColName(bname, FLUX), simflux)
        t2 == SetCol(t1, ColName(bname, RATE),
                     [j \in 1..Len(simflux) |->
                         FDiv(GetCol(t1, ColName(bname, FLUX))[j], vega_flux[f])])
        t3 == SetCol(t2, ColName(bname, VEGA),
                     Magnitudes(GetCol(t2, ColName(bname, RATE))))
        t4 == SetCol(t3, ColName(bname, INPUT_FLUX),
                     Picked(sedgrid.seds, sim_indx, f))
        t5 == SetCol(t4, ColName(bname, INPUT_RATE),
                     [j \in 1..Len(simflux) |->
                         FDiv(GetCol(t4, ColName(bname, INPUT_FLUX))[j],
                              vega_flux[f])])
    IN  SetCol(t5, ColName(bname, INPUT_VEGA),
               Magnitudes(GetCol(t5, ColName(bname, INPUT_RATE))))

\* the loop of lines 348-349 from the q-th key on
RECURSIVE ParamColumns(_, _)
ParamColumns(t, q) ==
    IF q > Len(sedgrid.keys) THEN t
    ELSE ParamColumns(
             SetCol(t, sedgrid.keys[q],
                    [j \in 1..Len(sim_indx) |->
                        sedgrid.cols[sedgrid.keys[q]][sim_indx[j]]]),
             q + 1)

LocalsCleared ==
    /\ model_compl = <<>>
    /\ gridweights = <<>>
    /\ seeded = FALSE
    /\ sim_indx = <<>>
    /\ vega_flux = <<>>
    /\ k = 0
    /\ ot = <<>>
    /\ err = NoError

Raise(e) ==
    /\ pc' = "raised"
    /\ err' = e

\* entry, lines 259-264
Call(a) ==
    /\ pc \in {"idle", "returned", "raised"}
    /\ pc' = "completeness"
    /\ args' = a
    /\ rng_entry' = rng
    /\ model_compl' = <<>>
    /\ gridweights' = <<>>
    /\ seeded' = FALSE
    /\ sim_indx' = <<>>
    /\ vega_flux' = <<>>
    /\ k' = 0
    /\ ot' = <<>>
    /\ err' = NoError
    /\ UNCHANGED <<sedgrid, noisemodel, rng, remembered, obsvars>>

\* lines 269-285
ResolveCompleteness ==
    /\ pc = "completeness"
    /\ IF IsMax(args.compl_filter)
         THEN /\ model_compl' = MaxCompleteness(noisemodel.completeness)
              /\ pc' = "weights"
              /\ UNCHANGED err
         ELSE LET short_filters == ShortFilters(sedgrid.filters)
                  wanted == StrUpper(args.compl_filter)
              IN  IF ~InList(wanted, short_filters)
                    THEN /\ Raise(FilterNotPresent(args.compl_filter,
                                                   short_filters))
                         /\ UNCHANGED model_compl
                    ELSE /\ model_compl' =
                              CompletenessColumn(noisemodel.completeness,
                                  ListIndex(wanted, short_filters))
                         /\ pc' = "weights"
                         /\ UNCHANGED err
    /\ UNCHANGED <<sedgrid, noisemodel, rng, args, rng_entry, gridweights,
                   seeded, sim_indx, vega_flux, k, ot, remembered, obsvars>>

\* lines 291-293
Weights ==
    /\ pc = "weights"
    /\ gridweights' = Normalize(sedgrid.cols[args.weight_to_use], model_compl)
    /\ pc' = "seed"
    /\ UNCHANGED <<sedgrid, noisemodel, rng, args, rng_entry, model_compl,
                   seeded, sim_indx, vega_flux, k, ot, err, remembered,
                   obsvars>>

\* lines 296-297: "if not None" is always true
Seed ==
    /\ pc = "seed"
    /\ rng' \in SeedStates(args.ranseed)
    /\ seeded' = TRUE
    /\ pc' = "sample"
    /\ UNCHANGED <<sedgrid, noisemodel, args, rng_entry, model_compl,
                   gridweights, sim_indx, vega_flux, k, ot, err, remembered,
                   obsvars>>

\* lines 300-301
Sample ==
    /\ pc = "sample"
    /\ IF ChoiceError(gridweights) # NoError
         THEN /\ Raise(ChoiceError(gridweights))
              /\ UNCHANGED <<rng, sim_indx>>
         ELSE /\ sim_indx' = Choice(gridweights, args.nsim, rng)
              /\ rng' = Advance(rng, args.nsim)
              /\ pc' = "vega"
              /\ UNCHANGED err
    /\ UNCHANGED <<sedgrid, noisemodel, args, rng_entry, model_compl,
                   gridweights, seeded, vega_flux, k, ot, remembered, obsvars>>

\* lines 304-308
GetVega ==
    /\ pc = "vega"
    /\ IF VegaFails(args.vega_fname)
         THEN /\ Raise(VegaError)
              /\ UNCHANGED <<vega_flux, k>>
         ELSE /\ vega_flux' = VegaGetFlux(sedgrid.filters)
              /\ k' = 1
              /\ pc' = "filters"
              /\ UNCHANGED err
    /\ UNCHANGED <<sedgrid, noisemodel, rng, args, rng_entry, model_compl,
                   gridweights, seeded, sim_indx, ot, remembered, obsvars>>

\* lines 310-345, one filter
FilterLoop ==
    /\ pc = "filters"
    /\ k <= n_filters
    /\ LET simflux_wbias ==
               [j \in 1..Len(sim_indx) |->
                   sedgrid.seds[sim_indx[j]][k]
                   + noisemodel.bias[sim_indx[j]][k]]
           model_unc ==
               [j \in 1..Len(sim_indx) |->
                   Abs(noisemodel.error[sim_indx[j]][k])]
       IN  ot' = FilterColumns(ot, k, Normal(simflux_wbias, model_unc, rng))
    /\ rng' = Advance(rng, args.nsim)
    /\ k' = k + 1
    /\ UNCHANGED <<sedgrid, noisemodel, pc, args, rng_entry, model_compl,
                   gridweights, seeded, sim_indx, vega_flux, err, remembered,
                   obsvars>>

\* lines 348-351
Return ==
    /\ pc = "filters"
    /\ k > n_filters
    /\ ot' = ParamColumns(ot, 1)
    /\ pc' = "returned"
    /\ UNCHANGED <<sedgrid, noisemodel, rng, args, rng_entry, model_compl,
                   gridweights, seeded, sim_indx, vega_flux, k, err,
                   remembered, obsvars>>

\* keep a returned, seeded call to compare later calls against
Remember ==
    /\ pc = "returned"
    /\ remembered = NoCall
    /\ args.ranseed # None
    /\ remembered' = [args |-> args, rng_entry |-> rng_entry,
                      sim_indx |-> sim_indx, ot |-> ot]
    /\ UNCHANGED <<sedgrid, noisemodel, rng, pc, args, rng_entry,
                   model_compl, gridweights, seeded, sim_indx, vega_flux, k,
                   ot, err, obsvars>>

(***************************************************************************)
(* class Observations                                                       *)
(***************************************************************************)
NoObject == [constructed |-> FALSE]

NoOutcome == [op |-> "none", num |-> 0, read |-> <<>>, value |-> <<>>,
              err |-> NoError]

ERR == <<"_", "err">>

ObsFilterLists == {<<F_Xa>>, <<F_Xa, F_YB>>, <<F_b, F_XYa>>}

\* the catalog's own name of a filter's column, e.g. A_RATE for X_a
ExtName(filter) == BName(filter) \o RATE

Canonical(filters) == filters

External(filters) == [f \in 1..Len(filters) |-> ExtName(filters[f])]

\* a catalog of NObs records with the given columns; every cell differs
Catalog(names) ==
    [name \in {names[c] : c \in 1..Len(names)} |->
        [row \in 1..NObs |->
            10 * (CHOOSE c \in 1..Len(names) : names[c] = name) + row]]

WithErr(names) == names \o [c \in 1..Len(names) |-> names[c] \o ERR]

\* catalogs with canonical columns, with the catalog's own, and with both
Catalogs(filters) ==
    {Catalog(WithErr(Canonical(filters))),
     Catalog(WithErr(External(filters))),
     Catalog(WithErr(Canonical(filters)) \o WithErr(External(filters)))}

\* lines 55-57
FilterAliases(filters, obs_colnames) ==
    [name \in {filters[f] : f \in 1..Len(filters)} |->
        obs_colnames[CHOOSE f \in 1..Len(filters) :
            /\ filters[f] = name
            /\ \A g \in 1..Len(filters) : filters[g] = name => g <= f]]

\* the columns getFlux looks up, in order (line 160)
FluxColumns(o) == [f \in 1..Len(o.filters) |-> o.filter_aliases[o.filters[f]]]

\* the columns getFluxerr looks up, in order (line 176)
FluxerrColumns(o) == [f \in 1..Len(o.filters) |-> o.filters[f] \o ERR]

\* the lookups made until the first missing column, that one included
ReadUntilMissing(data, names) ==
    LET missing == {c \in 1..Len(names) : names[c] \notin DOMAIN data}
    IN  IF missing = {} THEN names
        ELSE SubSeq(names, 1, CHOOSE c \in missing : \A d \in missing : c <= d)

KeyError(name) == [type |-> "KeyError", msg |-> name]

\* the outcome of looking up names in row num: the values or a KeyError
Lookup(op, data, names, num) ==
    LET read == ReadUntilMissing(data, names)
    IN  IF read[Len(read)] \notin DOMAIN data
          THEN [op |-> op, num |-> num, read |-> read, value |-> <<>>,
                err |-> KeyError(read[Len(read)])]
          ELSE [op |-> op, num |-> num, read |-> read,
                value |-> [c \in 1..Len(names) |-> data[names[c]][num]],
                err |-> NoError]

\* Observations.__init__, lines 49-62, given the catalog as a table
Construct(data, filters, obs_colnames, vega_fname) ==
    /\ IF obs_colnames = None
         THEN /\ obs' = NoObject
              /\ obs_out' = [NoOutcome EXCEPT !.op = "__init__",
                     !.err = [type |-> "TypeError",
                              msg |-> <<"'NoneType' object is not subscriptable">>]]
         ELSE IF VegaFails(vega_fname)
         THEN /\ obs' = NoObject
              /\ obs_out' = [NoOutcome EXCEPT !.op = "__init__",
                                              !.err = VegaError]
         ELSE /\ obs' = [constructed |-> TRUE,
                         filters |-> filters,
                         filter_aliases |-> FilterAliases(filters, obs_colnames[1]),
                         data |-> data,
                         vega_flux |-> VegaGetFlux(filters),
                         badvalue |-> "6e-40"]
              /\ obs_out' = [NoOutcome EXCEPT !.op = "__init__"]
    /\ UNCHANGED simvars

\* Observations.getFlux, lines 153-167
getFlux(num, units) ==
    /\ obs.constructed
    /\ LET got == Lookup("getFlux", obs.data, FluxColumns(obs), num)
       IN  obs_out' =
             IF got.err # NoError THEN got
             ELSE IF units
               THEN [got EXCEPT !.value = <<>>,
                        !.err = [type |-> "AttributeError",
                                 msg |-> <<"'bool' object has no attribute 'erg'">>]]
             ELSE [got EXCEPT !.value =
                      [f \in 1..Len(obs.filters) |->
                          got.value[f] * obs.vega_flux[f]]]
    /\ UNCHANGED <<simvars, obs>>

\* Observations.getFluxerr, lines 173-178
getFluxerr(num) ==
    /\ obs.constructed
    /\ obs_out' = Lookup("getFluxerr", obs.data, FluxerrColumns(obs), num)
    /\ UNCHANGED <<simvars, obs>>

(***************************************************************************)
(* Specifications                                                           *)
(***************************************************************************)
InitCall ==
    /\ pc = "idle"
    /\ args = NoArgs
    /\ rng_entry = 0
    /\ LocalsCleared
    /\ remembered = NoCall

InitNoObs ==
    /\ obs = NoObject
    /\ obs_out = NoOutcome

\* the generator, called on any grid, from any generator state
Init ==
    /\ \E filters \in FilterLists, weight \in WeightColumns,
          pattern \in CompletenessPatterns :
          /\ sedgrid = Grid(filters, weight)
          /\ noisemodel = NoiseModel(pattern, Len(weight), Len(filters))
    /\ rng \in RngStates
    /\ InitCall
    /\ InitNoObs

Next ==
    \/ \E a \in CallArgs : Call(a)
    \/ ResolveCompleteness
    \/ Weights
    \/ Seed
    \/ Sample
    \/ GetVega
    \/ FilterLoop
    \/ Return

Spec == Init /\ [][Next]_vars

\* repeated calls on one grid, an earlier one kept for comparison
DetArgs ==
    [nsim : 1..MaxNsim,
     compl_filter : {<<"A">>, <<"M", "a", "x">>},
     ranseed : {None} \cup {<<s>> : s \in 0..MaxSeed},
     vega_fname : {<<"vega">>},
     weight_to_use : {WEIGHT}]

InitDet ==
    /\ \E filters \in FilterLists, weight \in {<<2, 1>>, <<1, 0, 1>>} :
          /\ sedgrid = Grid(filters, weight)
          /\ noisemodel = NoiseModel("mixed", Len(weight), Len(filters))
    /\ rng \in RngStates
    /\ InitCall
    /\ InitNoObs

NextDet ==
    \/ \E a \in DetArgs : Call(a)
    \/ ResolveCompleteness
    \/ Weights
    \/ Seed
    \/ Sample
    \/ GetVega
    \/ FilterLoop
    \/ Return
    \/ Remember

SpecDet == InitDet /\ [][NextDet]_vars

\* the catalog interface
InitObs ==
    /\ sedgrid = Grid(<<F_Xa, F_YB>>, <<1, 1>>)
    /\ noisemodel = NoiseModel("mixed", 2, 2)
    /\ rng = 0
    /\ InitCall
    /\ InitNoObs

NextObs ==
    \/ \E filters \in ObsFilterLists :
         \E data \in Catalogs(filters),
            obs_colnames \in {None, <<Canonical(filters)>>, <<External(filters)>>},
            vega_fname \in VegaFiles :
            Construct(data, filters, obs_colnames, vega_fname)
    \/ \E num \in 1..NObs, units \in BOOLEAN : getFlux(num, units)
    \/ \E num \in 1..NObs : getFluxerr(num)

SpecObs == InitObs /\ [][NextObs]_vars

(***************************************************************************)
(* Properties                                                               *)
(***************************************************************************)
Finished == pc \in {"returned", "raised"}

\* weight[i] * completeness_summary[i] of the call in progress
RawWeights ==
    [i \in 1..n_models |->
        sedgrid.cols[args.weight_to_use][i] * model_compl[i]]

\* every column of table t has n rows
AllRows(t, n) == \A c \in 1..Len(t) : Len(t[c].vals) = n

\* C1: every failure of gen_SimObs_from_sedgrid is raised before the
\* generator is seeded and before any index is drawn, and a call that
\* returns gives a table of exactly nsim rows.
C1_FailuresBeforeSampling ==
    /\ pc = "raised" => ~seeded /\ sim_indx = <<>> /\ rng = rng_entry
    /\ pc = "returned" => ot # <<>> /\ AllRows(ot, args.nsim)

\* C2: a call whose selection weights weight[i] * completeness_summary[i]
\* sum to zero, or are all zero or negative, ends in an error and returns
\* no table.
C2_DegenerateWeightsFail ==
    (/\ Finished
     /\ model_compl # <<>>
     /\ \/ Sum(RawWeights) = 0
        \/ \A i \in 1..n_models : RawWeights[i] <= 0)
    => pc = "raised" /\ ot = <<>>

\* the requested completeness filter is neither 'max' nor a band of the grid
UnknownFilter ==
    /\ StrLower(args.compl_filter) # <<"m", "a", "x">>
    /\ \A f \in 1..n_filters :
          BName(sedgrid.filters[f]) # StrUpper(args.compl_filter)

\* C3: a call with a compl_filter that is not 'max' in any case and is not,
\* case-insensitively, the token after the last underscore of a grid filter
\* raises an error whose message names every band of the grid, and builds
\* no table.
C3_UnknownFilterRaises ==
    (pc \notin {"idle", "completeness"} /\ UnknownFilter)
    => /\ pc = "raised"
       /\ err.type = "NotImplementedError"
       /\ \A f \in 1..n_filters :
             Contains(err.msg, <<"\nPossible filters:">>)
             /\ Contains(err.msg, BName(sedgrid.filters[f]))
       /\ ot = <<>>
       /\ sim_indx = <<>>

C3_Witness ==
    /\ pc = "raised"
    /\ UnknownFilter
    /\ err.type = "NotImplementedError"

\* C4: a call that returns with the same grid, noise model, nsim, filter,
\* weight and non-None seed as an earlier returned call has drawn the same
\* sample indices and built the same table, whatever the generator's state
\* was when either call began.
C4_SeededCallsAgree ==
    (pc = "returned" /\ remembered # NoCall /\ args = remembered.args)
    => /\ sim_indx = remembered.sim_indx
       /\ ot = remembered.ot

C4_Witness ==
    /\ pc = "returned"
    /\ remembered # NoCall
    /\ args = remembered.args
    /\ args.ranseed # None
    /\ rng_entry # remembered.rng_entry

\* C5: the returned table has nsim rows, the truth flux column of every
\* filter f holds grid.flux[sim_indx[j], f] in row j, and every parameter
\* column holds the grid's value of that parameter at sim_indx[j].
C5_RowAlignment ==
    pc = "returned"
    => /\ AllRows(ot, args.nsim)
       /\ \A f \in 1..n_filters :
             /\ HasCol(ot, ColName(BName(sedgrid.filters[f]), INPUT_FLUX))
             /\ GetCol(ot, ColName(BName(sedgrid.filters[f]), INPUT_FLUX))
                = [j \in 1..args.nsim |-> sedgrid.seds[sim_indx[j]][f]]
       /\ \A q \in 1..Len(sedgrid.keys) :
             /\ HasCol(ot, sedgrid.keys[q])
             /\ GetCol(ot, sedgrid.keys[q])
                = [j \in 1..args.nsim |->
                      sedgrid.cols[sedgrid.keys[q]][sim_indx[j]]]

\* the magnitude column mag follows the sentinel rule from the rate column
SentinelRule(rate, mag, n) ==
    /\ Len(rate) = n
    /\ Len(mag) = n
    /\ \A j \in 1..n :
          /\ (rate[j].den > 0 /\ rate[j].num <= 0)
             => mag[j] = [fn |-> "const",
                          arg |-> [num |-> -99999, den |-> 1000]]
          /\ (rate[j].den > 0 /\ rate[j].num > 0)
             => mag[j] = [fn |-> "-2.5*log10", arg |-> rate[j]]

\* C6: in the returned table, for every filter, the simulated magnitude
\* follows from the simulated rate and the truth magnitude from the truth
\* rate: -99.999 where the rate is <= 0 and -2.5*log10(rate) where it is
\* > 0; all nsim rows are kept, and no error is raised once the filter
\* loop has begun.
C6_MagnitudeSentinel ==
    /\ pc = "returned" =>
          \A f \in 1..n_filters :
             LET bname == BName(sedgrid.filters[f])
             IN  /\ SentinelRule(GetCol(ot, ColName(bname, RATE)),
                                 GetCol(ot, ColName(bname, VEGA)), args.nsim)
                 /\ SentinelRule(GetCol(ot, ColName(bname, INPUT_RATE)),
                                 GetCol(ot, ColName(bname, INPUT_VEGA)),
                                 args.nsim)
    /\ pc = "raised" => k = 0 /\ ot = <<>>

C6_Witness ==
    /\ pc = "returned"
    /\ \E f \in 1..n_filters, j \in 1..args.nsim :
          LET bname == BName(sedgrid.filters[f])
          IN  /\ GetCol(ot, ColName(bname, RATE))[j].num <= 0
              /\ GetCol(ot, ColName(bname, INPUT_RATE))[j].num > 0
    /\ \E f \in 1..n_filters, j \in 1..args.nsim :
          LET bname == BName(sedgrid.filters[f])
          IN  /\ GetCol(ot, ColName(bname, RATE))[j].num > 0
              /\ GetCol(ot, ColName(bname, INPUT_RATE))[j].num = 0

\* weights >= 0 with a positive sum
ValidWeights ==
    /\ \A i \in 1..n_models : RawWeights[i] >= 0
    /\ Sum(RawWeights) > 0

\* C7: for valid inputs every entry of the normalised selection weights is
\* >= 0, and no call ever draws a model whose selected weight or whose
\* completeness summary is zero.
C7_ZeroProbabilityNeverDrawn ==
    /\ (gridweights # <<>> /\ ValidWeights)
       => \A i \in 1..n_models :
             gridweights[i].den > 0 /\ gridweights[i].num >= 0
    /\ \A j \in 1..Len(sim_indx) :
          /\ sedgrid.cols[args.weight_to_use][sim_indx[j]] # 0
          /\ model_compl[sim_indx[j]] # 0

C7_Witness ==
    /\ pc = "vega"
    /\ ValidWeights
    /\ RawWeights[1] = 0
    /\ Len(sim_indx) = args.nsim
    /\ \E s \in RngStates :
          Advance(s, args.nsim) = rng /\ Uniform(s, 1) = 0

\* the error columns as the alias mapping names them
AliasedFluxerrColumns(o) ==
    [f \in 1..Len(o.filters) |-> o.filter_aliases[o.filters[f]] \o ERR]

\* C8: getFlux and getFluxerr look up, for each filter in declared order,
\* the column named by filter_aliases (for getFluxerr, that name followed
\* by "_err").
C8_AliasUsedForEveryLookup ==
    /\ obs_out.op = "getFlux"
       => \A c \in 1..Len(obs_out.read) :
             obs_out.read[c] = obs.filter_aliases[obs.filters[c]]
    /\ obs_out.op = "getFluxerr"
       => \A c \in 1..Len(obs_out.read) :
             obs_out.read[c] = AliasedFluxerrColumns(obs)[c]

\* C9: the completeness summary is the maximum over the filters when
\* compl_filter is 'max', and otherwise the completeness column of the grid
\* filter whose band equals the request, whichever grid filter that is.
C9_CompletenessSummary ==
    model_compl # <<>>
    => IF StrLower(args.compl_filter) = <<"m", "a", "x">>
         THEN \A i \in 1..n_models :
                 /\ \A f \in 1..n_filters :
                       noisemodel.completeness[i][f] <= model_compl[i]
                 /\ \E f \in 1..n_filters :
                       noisemodel.completeness[i][f] = model_compl[i]
         ELSE \A f \in 1..n_filters :
                 BName(sedgrid.filters[f]) = StrUpper(args.compl_filter)
                 => \A i \in 1..n_models :
                       model_compl[i] = noisemodel.completeness[i][f]

\* the six columns of a filter, in the order they are written
FilterColNames(filter) ==
    [c \in 1..6 |->
        ColName(BName(filter),
                <<FLUX, RATE, VEGA, INPUT_FLUX, INPUT_RATE, INPUT_VEGA>>[c])]

\* C10: the returned table holds, for each grid filter in grid order, that
\* filter's six columns, followed by one column per grid parameter in the
\* grid's order: 6 * F + P columns, none replaced by a later one.
C10_AllColumnsKept ==
    pc = "returned"
    => /\ Len(ot) = 6 * n_filters + Len(sedgrid.keys)
       /\ \A f \in 1..n_filters, c \in 1..6 :
             ColNames(ot)[6 * (f - 1) + c] = FilterColNames(sedgrid.filters[f])[c]
       /\ \A q \in 1..Len(sedgrid.keys) :
             ColNames(ot)[6 * n_filters + q] = sedgrid.keys[q]

====
